---- MODULE Spec2Model ----
\* A model of wgsl-example/src/lib.rs: the GPU context bootstrap
\* (GpuConsts::initialaze), the dispatch of one kernel against one to four
\* buffers (BufCoder::initialize) and the readback of its result
\* (GpuConsts::run), together with the device timeline they talk to.
EXTENDS Integers, Sequences, FiniteSets, TLC

\* ------------------------------------------------------------------ bounds

\* longest primary sequence handed to a dispatch
MaxLen == 2
\* largest binding_number handed to a dispatch (the code binds at most four)
MaxBindingNumber == 5
\* how many times GpuConsts::run is called on the BufCoder
MaxRuns == 2
\* how many times each of two callers sharing a GpuConsts calls run
MaxPairRuns == 1
\* longest slice handed to the CPU-side sums
MaxSumLen == 4

\* ------------------------------------------------------- values and helpers

\* Option<T>: None is the empty sequence, Some(x) the one-element sequence.
None == << >>
Some(x) == << x >>

\* A u32 is kept as its two 16-bit halves <<hi, lo>>, so that all 32 bits are
\* there without leaving the integers the checker can count with.
Half == 65536
U32(hi, lo) == << hi, lo >>

\* the sample words: 0x00000102 and 0x80030004
Words == { U32(0, 258), U32(32771, 4) }

RECURSIVE SeqsUpTo(_, _)
SeqsUpTo(S, n) ==
    IF n = 0 THEN { << >> }
    ELSE LET shorter == SeqsUpTo(S, n - 1)
         IN  shorter \cup { Append(s, x) : s \in { t \in shorter : Len(t) = n - 1 }, x \in S }

\* bytemuck::cast_slice::<u32, u8>: every word becomes its four bytes, least
\* significant first (the host is little-endian).
WordBytes(w) ==
    << w[2] % 256, w[2] \div 256, w[1] % 256, w[1] \div 256 >>

RECURSIVE cast_slice_to_bytes(_)
cast_slice_to_bytes(ws) ==
    IF ws = << >> THEN << >>
    ELSE WordBytes(Head(ws)) \o cast_slice_to_bytes(Tail(ws))

\* bytemuck::cast_slice::<u8, u32>: four bytes at a time, least significant
\* first, become one word.
BytesWord(b) ==
    U32(b[3] + 256 * b[4], b[1] + 256 * b[2])

RECURSIVE cast_slice_to_words(_)
cast_slice_to_words(bs) ==
    IF Len(bs) < 4 THEN << >>
    ELSE << BytesWord(SubSeq(bs, 1, 4)) >> \o cast_slice_to_words(SubSeq(bs, 5, Len(bs)))

Zeros(n) == [ i \in 1..n |-> 0 ]

\* ------------------------------------------------------------------ state

VARIABLES
    boot,        \* the frame of GpuConsts::initialaze: position and locals
    ilog,        \* the platform calls initialaze has made, in order
    call,        \* the arguments of BufCoder::initialize, None before the call
    buffers,     \* the GPU buffers of the device, by name
    bind_groups, \* the bind groups created on the device
    queue,       \* the commands submitted to the queue and not yet executed
    bufcoder,    \* the BufCoder returned by initialize, None before
    mapping,     \* the map state of the staging buffer
    run,         \* the frame of the current GpuConsts::run call
    rlog,        \* the device calls the current run has made, in order
    results,     \* how each finished call of run ended, in order
    host,        \* the Bindings the caller handed to initialize, as the caller holds it
    sums,        \* a call of the CPU-side sums: its arguments, its pending calls, its value
    pair         \* two dispatches issued against one GpuConsts, and their readbacks

vars == << boot, ilog, call, buffers, bind_groups, queue, bufcoder, mapping,
           run, rlog, results, host, sums, pair >>

\* what the single dispatch and its readback never touch
sideVars == << sums, pair >>

dispatchVars == << call, buffers, bind_groups, queue, bufcoder, mapping,
                   run, rlog, results, host, sideVars >>

\* the bootstrap, the single dispatch and its readback
mainVars == << boot, ilog, call, buffers, bind_groups, queue, bufcoder, mapping,
               run, rlog, results, host >>

\* ------------------------------------------------- GpuConsts::initialaze

\* the "software warning" vendor id the adapter-info check rejects
BlacklistedVendor == 65541

\* the vendor ids an adapter may report: the blacklisted one and NVIDIA's
Vendors == { BlacklistedVendor, 4318 }

\* the shader paths a caller passes and the ones that can be read
Filenames == { "missing.wgsl", "shader.wgsl" }
Readable == { "shader.wgsl" }

Ok(v) == [ kind |-> "Ok", msg |-> "", val |-> v ]
Err(m) == [ kind |-> "Err", msg |-> m, val |-> << >> ]
Panic(m) == [ kind |-> "Panic", msg |-> m, val |-> << >> ]

\* std::fs::read_to_string
read_to_string(filename) ==
    IF filename \in Readable THEN Ok(<< filename >>) ELSE Err("io error")

\* The order of the steps of initialaze when each one succeeds.
OrderCheckAfterModule(pc) ==
    CASE pc = "start" -> "request_adapter"
      [] pc = "request_adapter" -> "request_device"
      [] pc = "request_device" -> "read_to_string"
      [] pc = "read_to_string" -> "create_shader_module"
      [] pc = "create_shader_module" -> "get_info"
      [] pc = "get_info" -> "ok"

InitialazeOrder(pc) ==
    CASE pc = "start" -> "request_adapter"
      [] pc = "request_adapter" -> "request_device"
      [] pc = "request_device" -> "get_info"
      [] pc = "get_info" -> "read_to_string"
      [] pc = "read_to_string" -> "create_shader_module"
      [] pc = "create_shader_module" -> "ok"

\* `.ok_or_else(|| "adapter error")?`: without an adapter the function
\* returns the error, with one it goes on.
AdapterUnwrapped(adapter) ==
    IF adapter = None THEN Panic("unwrap on None")
    ELSE Ok(adapter)

AdapterOrError(adapter) ==
    IF adapter = None THEN Err("adapter error") ELSE Ok(adapter)

\* `if info.vendor == 0x10005`
VendorRejected(info) == info.vendor = BlacklistedVendor

BootIdle ==
    [ pc |-> "idle", filename |-> "", instance |-> FALSE, adapter |-> None,
      device |-> FALSE, queue |-> FALSE, info |-> None, cs_module |-> None,
      ret |-> None ]

\* The call: initialaze(filename), up to the Instance it creates first.
Initialaze(filename) ==
    /\ boot.pc = "idle"
    /\ boot' = [ boot EXCEPT !.pc = InitialazeOrder("start"),
                             !.filename = filename, !.instance = TRUE ]
    /\ ilog' = Append(ilog, "instance")
    /\ UNCHANGED dispatchVars

\* instance.request_adapter(..).await.ok_or_else(..)?
RequestAdapter(adapter) ==
    /\ boot.pc = "request_adapter"
    /\ LET got == AdapterOrError(adapter)
       IN  boot' = IF got.kind = "Ok"
                   THEN [ boot EXCEPT !.pc = InitialazeOrder("request_adapter"),
                                      !.adapter = adapter ]
                   ELSE [ boot EXCEPT !.pc = "done", !.ret = Some(got) ]
    /\ ilog' = Append(ilog, "request_adapter")
    /\ UNCHANGED dispatchVars

\* adapter.request_device(..).await.unwrap()
RequestDevice(granted) ==
    /\ boot.pc = "request_device"
    /\ boot' = IF granted
               THEN [ boot EXCEPT !.pc = InitialazeOrder("request_device"),
                                  !.device = TRUE, !.queue = TRUE ]
               ELSE [ boot EXCEPT !.pc = "done",
                                  !.ret = Some(Panic("unwrap on Err")) ]
    /\ ilog' = Append(ilog, "request_device")
    /\ UNCHANGED dispatchVars

\* let info = adapter.get_info(); if info.vendor == 0x10005 { return Err(..) }
GetInfo ==
    /\ boot.pc = "get_info"
    /\ LET info == [ vendor |-> boot.adapter[1].vendor ]
       IN  boot' = IF VendorRejected(info)
                   THEN [ boot EXCEPT !.pc = "done", !.info = Some(info),
                                      !.ret = Some(Err("info error")) ]
                   ELSE [ boot EXCEPT !.pc = InitialazeOrder("get_info"),
                                      !.info = Some(info) ]
    /\ ilog' = Append(ilog, "get_info")
    /\ UNCHANGED dispatchVars

\* read_to_string(filename).unwrap(), the argument of create_shader_module
ReadShader ==
    /\ boot.pc = "read_to_string"
    /\ LET text == read_to_string(boot.filename)
       IN  boot' = IF text.kind = "Ok"
                   THEN [ boot EXCEPT !.pc = InitialazeOrder("read_to_string"),
                                      !.cs_module = Some([ source |-> text.val[1], compiled |-> FALSE ]) ]
                   ELSE [ boot EXCEPT !.pc = "done",
                                      !.ret = Some(Panic("unwrap on Err")) ]
    /\ ilog' = Append(ilog, "read_to_string")
    /\ UNCHANGED dispatchVars

\* device.create_shader_module(..)
CreateShaderModule ==
    /\ boot.pc = "create_shader_module"
    /\ boot' = [ boot EXCEPT !.pc = InitialazeOrder("create_shader_module"),
                             !.cs_module = Some([ source |-> boot.cs_module[1].source,
                                                  compiled |-> TRUE ]) ]
    /\ ilog' = Append(ilog, "create_shader_module")
    /\ UNCHANGED dispatchVars

\* Ok(GpuConsts { .. })
ReturnGpuConsts ==
    /\ boot.pc = "ok"
    /\ boot' = [ boot EXCEPT !.pc = "done", !.ret = Some(Ok(<< >>)) ]
    /\ UNCHANGED << ilog, dispatchVars >>

\* the GpuConsts a caller holds once initialaze has returned Ok
HasGpu == boot.pc = "done" /\ boot.ret = Some(Ok(<< >>))

\* ------------------------------------------------------------- Bindings

\* the auxiliary sequences a caller fills the other roles with
SharedSample == << U32(0, 258) >>
GlobalSample == << U32(32771, 4) >>
OutputSample == << U32(0, 258), U32(32771, 4) >>

initialize_one(input_output) ==
    [ input_output |-> input_output, shared_memory |-> << >>,
      global_memory |-> << >>, output_vec |-> << >> ]

initialize_two(input_output, shared_memory) ==
    [ input_output |-> input_output, shared_memory |-> shared_memory,
      global_memory |-> << >>, output_vec |-> << >> ]

initialize_three(input_output, shared_memory, global_memory) ==
    [ input_output |-> input_output, shared_memory |-> shared_memory,
      global_memory |-> global_memory, output_vec |-> << >> ]

initialize_four(input_vec, start, end, output_vec) ==
    [ input_output |-> input_vec, shared_memory |-> start,
      global_memory |-> end, output_vec |-> output_vec ]

Primaries == SeqsUpTo(Words, MaxLen)

BindingsInputs ==
    UNION { { initialize_one(p),
              initialize_two(p, SharedSample),
              initialize_three(p, SharedSample, GlobalSample),
              initialize_four(p, SharedSample, GlobalSample, OutputSample) }
            : p \in Primaries }

\* the entry points of the shader module: one leaves the primary buffer as
\* it is, one doubles every element
Funcs == { "identity", "double" }

BindingNumbers == 0..MaxBindingNumber

\* --------------------------------------------------- BufCoder::initialize

\* size_of::<u32>()
SizeOfU32 == 4

\* device.create_buffer: zero-filled, not mapped
create_buffer(size, usage) ==
    [ label |-> "", size |-> size, usage |-> usage, contents |-> Zeros(size) ]

\* device.create_buffer_init: as long as the contents, and holding them
create_buffer_init(label, contents, usage) ==
    [ label |-> label, size |-> Len(contents), usage |-> usage, contents |-> contents ]

Entry(binding, resource) == [ binding |-> binding, resource |-> resource ]

\* new_binding_entries: binding 0 always, then the nested conditionals
BindingEntriesOffByOne(binding_number) ==
    << Entry(0, "storage_buffer") >>
    \o (IF binding_number >= 1
        THEN << Entry(1, "storage_buffer2") >>
             \o (IF binding_number >= 2
                 THEN << Entry(2, "storage_buffer3") >>
                      \o (IF binding_number >= 3
                          THEN << Entry(3, "storage_buffer4") >>
                          ELSE << >>)
                 ELSE << >>)
        ELSE << >>)

BindingEntriesLoop(binding_number) ==
    LET roles == << "storage_buffer", "storage_buffer2", "storage_buffer3", "storage_buffer4" >>
        n == IF binding_number > 4 THEN 4 ELSE binding_number
    IN  [ k \in 1..n |-> Entry(k - 1, roles[k]) ]

BindingEntries(binding_number) ==
    << Entry(0, "storage_buffer") >>
    \o (IF binding_number > 1
        THEN << Entry(1, "storage_buffer2") >>
             \o (IF binding_number > 2
                 THEN << Entry(2, "storage_buffer3") >>
                      \o (IF binding_number > 3
                          THEN << Entry(3, "storage_buffer4") >>
                          ELSE << >>)
                 ELSE << >>)
        ELSE << >>)

\* slice_size: the size in bytes of the primary sequence
ByteSizeInElements(numbers) == Len(numbers.input_output)

ByteSize(numbers) == Len(numbers.input_output) * SizeOfU32

CreatedBuffersOneUsage(numbers) ==
    LET all == { "STORAGE", "COPY_DST", "COPY_SRC" }
    IN  ( "staging_buffer" :>
            create_buffer(Len(numbers.input_output) * SizeOfU32, { "MAP_READ", "COPY_DST" }) )
     @@ ( "storage_buffer" :>
            create_buffer_init("Storage Buffer", cast_slice_to_bytes(numbers.input_output), all) )
     @@ ( "storage_buffer2" :>
            create_buffer_init("Shared Memory Buffer", cast_slice_to_bytes(numbers.shared_memory), all) )
     @@ ( "storage_buffer3" :>
            create_buffer_init("Global Memory Buffer", cast_slice_to_bytes(numbers.global_memory), all) )
     @@ ( "storage_buffer4" :>
            create_buffer_init("Global Memory Buffer", cast_slice_to_bytes(numbers.output_vec), all) )

\* the buffers initialize creates, whatever binding_number is
CreatedBuffers(numbers) ==
    LET size == ByteSize(numbers)
    IN  ( "staging_buffer" :> create_buffer(size, { "MAP_READ", "COPY_DST" }) )
     @@ ( "storage_buffer" :>
            create_buffer_init("Storage Buffer", cast_slice_to_bytes(numbers.input_output),
                               { "STORAGE", "COPY_DST", "COPY_SRC" }) )
     @@ ( "storage_buffer2" :>
            create_buffer_init("Shared Memory Buffer", cast_slice_to_bytes(numbers.shared_memory),
                               { "STORAGE" }) )
     @@ ( "storage_buffer3" :>
            create_buffer_init("Global Memory Buffer", cast_slice_to_bytes(numbers.global_memory),
                               { "STORAGE" }) )
     @@ ( "storage_buffer4" :>
            create_buffer_init("Global Memory Buffer", cast_slice_to_bytes(numbers.output_vec),
                               { "STORAGE" }) )

RecordedCommandsCopyFirst(numbers, func_name, binding_number) ==
    << [ type |-> "copy_buffer_to_buffer", entry_point |-> "",
         bind_group |-> << >>, workgroups |-> << >>,
         src |-> "storage_buffer", dst |-> "staging_buffer",
         size |-> Len(numbers.input_output) * SizeOfU32 ],
       [ type |-> "compute_pass", entry_point |-> func_name,
         bind_group |-> << Entry(0, "storage_buffer") >>, workgroups |-> << 256, 1, 1 >>,
         src |-> "", dst |-> "", size |-> 0 ] >>

\* the commands the encoder records: the compute pass, then the copy
RecordedCommands(numbers, func_name, binding_number) ==
    << [ type |-> "compute_pass", entry_point |-> func_name,
         bind_group |-> BindingEntries(binding_number), workgroups |-> << 256, 1, 1 >>,
         src |-> "", dst |-> "", size |-> 0 ],
       [ type |-> "copy_buffer_to_buffer", entry_point |-> "",
         bind_group |-> << >>, workgroups |-> << >>,
         src |-> "storage_buffer", dst |-> "staging_buffer",
         size |-> ByteSize(numbers) ] >>

MapIdle == [ state |-> "idle", views |-> 0, request |-> "none" ]
RunIdle == [ pc |-> "idle", signal |-> "empty", data |-> None, result |-> None ]

HostIdle == [ numbers |-> None, replaced |-> FALSE ]

\* what the caller's Bindings hold after the call: initialize takes
\* `numbers: &mut Bindings` and only ever reads it
NumbersTaken(numbers) == initialize_one(<< >>)

NumbersAfterInitialize(numbers) == numbers

\* the Bindings a caller may build afterwards
ReplacementBindings ==
    { initialize_one(<< >>),
      initialize_four(<< U32(65535, 65535) >>, GlobalSample, OutputSample, SharedSample) }

\* BufCoder::initialize(gpu, numbers, func_name, binding_number)
Initialize(numbers, func_name, binding_number) ==
    /\ HasGpu
    /\ call = None
    /\ call' = Some([ numbers |-> numbers, func_name |-> func_name,
                      binding_number |-> binding_number ])
    /\ buffers' = CreatedBuffers(numbers)
    /\ bind_groups' = Append(bind_groups, BindingEntries(binding_number))
    /\ queue' = queue \o RecordedCommands(numbers, func_name, binding_number)
    /\ bufcoder' = Some([ staging_buffer |-> "staging_buffer" ])
    /\ host' = [ numbers |-> Some(NumbersAfterInitialize(numbers)), replaced |-> FALSE ]
    /\ UNCHANGED << sideVars, boot, ilog, mapping, run, rlog, results >>

\* Once initialize has returned, the caller may put another Bindings in the
\* place of the one it passed (the fields are private: a Bindings only comes
\* out of the four constructors).
ReplaceBindings(numbers) ==
    /\ host.numbers # None
    /\ ~host.replaced
    /\ host' = [ numbers |-> Some(numbers), replaced |-> TRUE ]
    /\ UNCHANGED << sideVars, boot, ilog, call, buffers, bind_groups, queue, bufcoder,
                    mapping, run, rlog, results >>

\* ------------------------------------------------------ the device timeline

\* dispatch_workgroups of the entry point, over the words of a buffer
DoubleWord(w) ==
    U32((2 * w[1] + (2 * w[2]) \div Half) % Half, (2 * w[2]) % Half)

Kernel(entry_point, ws) ==
    IF entry_point = "double" THEN [ i \in 1..Len(ws) |-> DoubleWord(ws[i]) ]
    ELSE ws

\* the device executes the compute pass at the head of the queue: the kernel
\* works on the buffer bound at binding 0
ExecuteComputePass ==
    /\ queue # << >>
    /\ Head(queue).type = "compute_pass"
    /\ LET cmd == Head(queue)
           target == cmd.bind_group[1].resource
       IN  buffers' = [ buffers EXCEPT ![target].contents =
                          cast_slice_to_bytes(Kernel(cmd.entry_point, cast_slice_to_words(@))) ]
    /\ queue' = Tail(queue)
    /\ UNCHANGED << sideVars, host, boot, ilog, call, bind_groups, bufcoder, mapping, run, rlog, results >>

\* the device executes the copy at the head of the queue
ExecuteCopy ==
    /\ queue # << >>
    /\ Head(queue).type = "copy_buffer_to_buffer"
    /\ LET cmd == Head(queue)
           from == buffers[cmd.src].contents
       IN  buffers' = [ buffers EXCEPT ![cmd.dst].contents =
                          [ i \in 1..Len(@) |-> IF i <= cmd.size THEN from[i] ELSE @[i] ] ]
    /\ queue' = Tail(queue)
    /\ UNCHANGED << sideVars, host, boot, ilog, call, bind_groups, bufcoder, mapping, run, rlog, results >>

\* ---------------------------------------------------------- GpuConsts::run

\* The order of the steps of run when the mapping succeeds.
RunOrderUnmapFirst(pc) ==
    CASE pc = "start" -> "map_async"
      [] pc = "map_async" -> "poll"
      [] pc = "poll" -> "receive"
      [] pc = "receive" -> "get_mapped_range"
      [] pc = "get_mapped_range" -> "to_vec"
      [] pc = "to_vec" -> "unmap"
      [] pc = "unmap" -> "drop"
      [] pc = "drop" -> "return"

RunOrderNoPoll(pc) ==
    CASE pc = "start" -> "map_async"
      [] pc = "map_async" -> "receive"
      [] pc = "poll" -> "receive"
      [] pc = "receive" -> "get_mapped_range"
      [] pc = "get_mapped_range" -> "to_vec"
      [] pc = "to_vec" -> "drop"
      [] pc = "drop" -> "unmap"
      [] pc = "unmap" -> "return"

RunOrderNoUnmap(pc) ==
    CASE pc = "start" -> "map_async"
      [] pc = "map_async" -> "poll"
      [] pc = "poll" -> "receive"
      [] pc = "receive" -> "get_mapped_range"
      [] pc = "get_mapped_range" -> "to_vec"
      [] pc = "to_vec" -> "drop"
      [] pc = "drop" -> "return"
      [] pc = "unmap" -> "return"

RunOrder(pc) ==
    CASE pc = "start" -> "map_async"
      [] pc = "map_async" -> "poll"
      [] pc = "poll" -> "receive"
      [] pc = "receive" -> "get_mapped_range"
      [] pc = "get_mapped_range" -> "to_vec"
      [] pc = "to_vec" -> "drop"
      [] pc = "drop" -> "unmap"
      [] pc = "unmap" -> "return"

\* `if let Some(Ok(())) = receiver.receive().await`
AnySignalMatches(signal) == signal \in { "ok", "err" }

MappingSucceeded(signal) == signal = "ok"

\* what the driver may answer a map request with: the mapping, its
\* rejection, or the callback dropped unanswered (the channel closes)
MapOutcomes == { "ok", "err", "closed" }

PanicsWith(msg) ==
    /\ run' = [ run EXCEPT !.pc = "panicked" ]
    /\ results' = Append(results, Panic(msg))

\* The call: run(bufcoder), up to the slice of the staging buffer and the
\* channel it creates.
Run ==
    /\ HasGpu
    /\ bufcoder # None
    /\ run.pc = "idle"
    /\ Len(results) < MaxRuns
    /\ run' = [ RunIdle EXCEPT !.pc = RunOrder("start") ]
    /\ rlog' = << >>
    /\ UNCHANGED << sideVars, host, boot, ilog, call, buffers, bind_groups, queue, bufcoder, mapping, results >>

\* buffer_slice.map_async(MapMode::Read, move |v| sender.send(v).unwrap())
MapAsync ==
    /\ run.pc = "map_async"
    /\ mapping' = IF mapping.state = "idle"
                  THEN [ mapping EXCEPT !.state = "pending", !.request = "waiting" ]
                  ELSE [ mapping EXCEPT !.request = "rejected" ]
    /\ run' = [ run EXCEPT !.pc = RunOrder("map_async") ]
    /\ rlog' = Append(rlog, "map_async")
    /\ UNCHANGED << sideVars, host, boot, ilog, call, buffers, bind_groups, queue, bufcoder, results >>

\* self.device.poll(Maintain::Wait): returns once the device has finished
\* the submitted work, having answered the map requests
Poll(outcome) ==
    /\ run.pc = "poll"
    /\ queue = << >>
    /\ outcome \in (IF mapping.request = "rejected" THEN { "err" } ELSE MapOutcomes)
    /\ mapping' = [ mapping EXCEPT !.request = "none",
                                   !.state = IF mapping.request = "waiting"
                                             THEN (IF outcome = "ok" THEN "mapped" ELSE "idle")
                                             ELSE @ ]
    /\ run' = [ run EXCEPT !.pc = RunOrder("poll"), !.signal = outcome ]
    /\ rlog' = Append(rlog, "poll")
    /\ UNCHANGED << sideVars, host, boot, ilog, call, buffers, bind_groups, queue, bufcoder, results >>

\* receiver.receive().await, and the match on what it yields
Receive ==
    /\ run.pc = "receive"
    /\ run.signal # "empty"
    /\ rlog' = Append(rlog, "receive")
    /\ IF MappingSucceeded(run.signal)
       THEN /\ run' = [ run EXCEPT !.pc = RunOrder("receive") ]
            /\ UNCHANGED results
       ELSE PanicsWith("failed to run compute on gpu!")
    /\ UNCHANGED << sideVars, host, boot, ilog, call, buffers, bind_groups, queue, bufcoder, mapping >>

\* let data = buffer_slice.get_mapped_range()
GetMappedRange ==
    /\ run.pc = "get_mapped_range"
    /\ rlog' = Append(rlog, "get_mapped_range")
    /\ IF mapping.state = "mapped"
       THEN /\ run' = [ run EXCEPT !.pc = RunOrder("get_mapped_range"),
                                   !.data = Some(buffers[bufcoder[1].staging_buffer].contents) ]
            /\ mapping' = [ mapping EXCEPT !.views = @ + 1 ]
            /\ UNCHANGED results
       ELSE /\ PanicsWith("buffer is not mapped")
            /\ UNCHANGED mapping
    /\ UNCHANGED << sideVars, host, boot, ilog, call, buffers, bind_groups, queue, bufcoder >>

\* let result = bytemuck::cast_slice(&data).to_vec()
ToVec ==
    /\ run.pc = "to_vec"
    /\ run' = [ run EXCEPT !.pc = RunOrder("to_vec"),
                           !.result = Some(cast_slice_to_words(run.data[1])) ]
    /\ rlog' = Append(rlog, "to_vec")
    /\ UNCHANGED << sideVars, host, boot, ilog, call, buffers, bind_groups, queue, bufcoder, mapping, results >>

\* drop(data)
DropData ==
    /\ run.pc = "drop"
    /\ run' = [ run EXCEPT !.pc = RunOrder("drop"), !.data = None ]
    /\ mapping' = [ mapping EXCEPT !.views = IF run.data = None THEN @ ELSE @ - 1 ]
    /\ rlog' = Append(rlog, "drop")
    /\ UNCHANGED << sideVars, host, boot, ilog, call, buffers, bind_groups, queue, bufcoder, results >>

\* bufcoder.staging_buffer.unmap(): the library refuses to unmap a buffer
\* that still has mapped views
Unmap ==
    /\ run.pc = "unmap"
    /\ rlog' = Append(rlog, "unmap")
    /\ IF mapping.views = 0
       THEN /\ run' = [ run EXCEPT !.pc = RunOrder("unmap") ]
            /\ mapping' = [ mapping EXCEPT !.state = "idle" ]
            /\ UNCHANGED results
       ELSE /\ PanicsWith("cannot unmap a buffer that still has mapped views")
            /\ UNCHANGED mapping
    /\ UNCHANGED << sideVars, host, boot, ilog, call, buffers, bind_groups, queue, bufcoder >>

\* Some(result)
ReturnResult ==
    /\ run.pc = "return"
    /\ results' = Append(results, [ kind |-> "Some", msg |-> "", val |-> run.result[1] ])
    /\ run' = [ run EXCEPT !.pc = "idle" ]
    /\ UNCHANGED << sideVars, host, boot, ilog, call, buffers, bind_groups, queue, bufcoder, mapping, rlog >>

\* ------------------------------------------------------- the CPU-side sums

\* the elements of the slices: 5, 0x0001FFFF and u32::MAX
SumWords == { U32(0, 5), U32(1, 65535), U32(65535, 65535) }

SumArrays == SeqsUpTo(SumWords, MaxSumLen) \ { << >> }

\* a[i], the slice being indexed from 0
At(a, i) == a[i + 1]

\* `+` on u32, as a build without overflow checks computes it
AddU32(a, b) ==
    U32((a[1] + b[1] + (a[2] + b[2]) \div Half) % Half, (a[2] + b[2]) % Half)

\* sum_vec: res = 0; for i in 0..cap { res += a[i] }
RECURSIVE SumVecLoop(_, _, _, _)
SumVecLoop(a, i, cap, res) ==
    IF i >= cap THEN res ELSE SumVecLoop(a, i + 1, cap, AddU32(res, At(a, i)))

sum_vec(a, cap) == SumVecLoop(a, 0, cap, U32(0, 0))

\* optimized_sum_vec returns without a recursive call: end == start, or
\* end - start == 1
IsBaseCase(start, end) == end = start \/ end - start = 1

\* what it returns then
BaseValueFirstOnly(arr, start, end) == At(arr, start)

BaseValue(arr, start, end) ==
    IF end = start THEN At(arr, end) ELSE AddU32(At(arr, start), At(arr, end))

\* the index ranges of its two recursive calls
SplitRangeOverlap(start, end) ==
    << << start, (end - start) \div 2 + start >>,
       << (end - start) \div 2 + start, end >> >>

SplitRange(start, end) ==
    << << start, (end - start) \div 2 + start >>,
       << (end - start) \div 2 + start + 1, end >> >>

RECURSIVE optimized_sum_vec(_, _, _)
optimized_sum_vec(arr, start, end) ==
    IF IsBaseCase(start, end) THEN BaseValue(arr, start, end)
    ELSE LET halves == SplitRange(start, end)
         IN  AddU32(optimized_sum_vec(arr, halves[1][1], halves[1][2]),
                    optimized_sum_vec(arr, halves[2][1], halves[2][2]))

SumIdle ==
    [ pc |-> "idle", arr |-> << >>, start |-> 0, end |-> 0, pending |-> << >>,
      entered |-> None, made |-> << >>, ret |-> None, total |-> None ]

\* The call optimized_sum_vec(arr, start, end), with 0 <= start <= end < len.
OptimizedSumVec(arr, start, end) ==
    /\ sums.pc = "idle"
    /\ sums' = [ sums EXCEPT !.pc = "running", !.arr = arr, !.start = start,
                             !.end = end, !.pending = << << start, end >> >> ]
    /\ UNCHANGED << mainVars, pair >>

\* The next pending call is entered: it returns at once in a base case, and
\* makes its two recursive calls otherwise.
EnterCall ==
    /\ sums.pc = "running"
    /\ sums.pending # << >>
    /\ LET frame == Head(sums.pending)
           calls == IF IsBaseCase(frame[1], frame[2]) THEN << >>
                    ELSE SplitRange(frame[1], frame[2])
       IN  sums' = [ sums EXCEPT !.pending = calls \o Tail(@),
                                 !.entered = Some(frame), !.made = calls ]
    /\ UNCHANGED << mainVars, pair >>

\* Every call has returned: the value of the outermost one, next to what
\* sum_vec(arr, end + 1) gives.
ReturnSum ==
    /\ sums.pc = "running"
    /\ sums.pending = << >>
    /\ sums' = [ sums EXCEPT !.pc = "done",
                             !.ret = Some(optimized_sum_vec(sums.arr, sums.start, sums.end)),
                             !.total = Some(sum_vec(sums.arr, sums.end + 1)) ]
    /\ UNCHANGED << mainVars, pair >>

\* ------------------------------------------- two dispatches on one GpuConsts

\* The two BufCoders built from one GpuConsts. Device::create_buffer and
\* create_buffer_init return a new buffer at every call, so the buffers of a
\* dispatch are its own; the device, its queue and poll are the context's.
Handles == { 1, 2 }

\* the buffer a call of initialize names `name`
BufferIdByNameOnly(h, name) == << 1, name >>

BufferId(h, name) == << h, name >>

\* what the two callers pass as the primary sequence
PairPrimaries == { << U32(1, 2) >>, << U32(65535, 65535), U32(0, 7) >> }

PairBuffers(h, numbers) ==
    LET made == CreatedBuffers(numbers)
        ids == { BufferId(h, name) : name \in DOMAIN made }
    IN  [ id \in ids |-> made[id[2]] ]

PairCommands(h, numbers, func_name, binding_number) ==
    LET recorded == RecordedCommands(numbers, func_name, binding_number)
    IN  [ i \in 1..Len(recorded) |->
            [ recorded[i] EXCEPT
                !.bind_group = [ k \in 1..Len(@) |->
                                   Entry(@[k].binding, BufferId(h, @[k].resource)) ],
                !.src = BufferId(h, @),
                !.dst = BufferId(h, @) ] ]

PairRunIdle == [ pc |-> "idle", request |-> "none", signal |-> "empty",
                 data |-> None, result |-> None ]

PairIdle ==
    [ calls |-> [ h \in Handles |-> None ],
      bufcoders |-> [ h \in Handles |-> None ],
      buffers |-> << >>,
      mappings |-> << >>,
      queue |-> << >>,
      runs |-> [ h \in Handles |-> PairRunIdle ],
      results |-> [ h \in Handles |-> << >> ] ]

\* BufCoder::initialize(gpu, numbers, func_name, binding_number), by caller h
PairInitialize(h, numbers, func_name, binding_number) ==
    /\ HasGpu
    /\ pair.calls[h] = None
    /\ pair' = [ pair EXCEPT
                   !.calls[h] = Some([ numbers |-> numbers, func_name |-> func_name,
                                       binding_number |-> binding_number ]),
                   !.buffers = PairBuffers(h, numbers) @@ @,
                   !.mappings = (BufferId(h, "staging_buffer") :> [ state |-> "idle", views |-> 0 ]) @@ @,
                   !.queue = @ \o PairCommands(h, numbers, func_name, binding_number),
                   !.bufcoders[h] = Some([ staging_buffer |-> BufferId(h, "staging_buffer") ]) ]
    /\ UNCHANGED << mainVars, sums >>

\* the device executes the compute pass at the head of the context's queue
PairExecuteComputePass ==
    /\ pair.queue # << >>
    /\ Head(pair.queue).type = "compute_pass"
    /\ LET cmd == Head(pair.queue)
           target == cmd.bind_group[1].resource
       IN  pair' = [ pair EXCEPT
                       !.buffers[target].contents =
                           cast_slice_to_bytes(Kernel(cmd.entry_point, cast_slice_to_words(@))),
                       !.queue = Tail(@) ]
    /\ UNCHANGED << mainVars, sums >>

\* the device executes the copy at the head of the context's queue
PairExecuteCopy ==
    /\ pair.queue # << >>
    /\ Head(pair.queue).type = "copy_buffer_to_buffer"
    /\ LET cmd == Head(pair.queue)
           from == pair.buffers[cmd.src].contents
       IN  pair' = [ pair EXCEPT
                       !.buffers[cmd.dst].contents =
                           [ i \in 1..Len(@) |-> IF i <= cmd.size THEN from[i] ELSE @[i] ],
                       !.queue = Tail(@) ]
    /\ UNCHANGED << mainVars, sums >>

PairStaging(h) == pair.bufcoders[h][1].staging_buffer

PairPanicsWith(h, msg) ==
    pair' = [ pair EXCEPT !.runs[h].pc = "panicked",
                          !.results[h] = Append(@, Panic(msg)) ]

\* run(bufcoder) of caller h
PairRun(h) ==
    /\ HasGpu
    /\ pair.bufcoders[h] # None
    /\ pair.runs[h].pc = "idle"
    /\ Len(pair.results[h]) < MaxPairRuns
    /\ pair' = [ pair EXCEPT !.runs[h] = [ PairRunIdle EXCEPT !.pc = RunOrder("start") ] ]
    /\ UNCHANGED << mainVars, sums >>

PairMapAsync(h) ==
    /\ pair.runs[h].pc = "map_async"
    /\ IF pair.mappings[PairStaging(h)].state = "idle"
       THEN pair' = [ pair EXCEPT !.mappings[PairStaging(h)].state = "pending",
                                  !.runs[h].request = "waiting",
                                  !.runs[h].pc = RunOrder("map_async") ]
       ELSE pair' = [ pair EXCEPT !.runs[h].request = "rejected",
                                  !.runs[h].pc = RunOrder("map_async") ]
    /\ UNCHANGED << mainVars, sums >>

\* device.poll(Maintain::Wait) by caller h: it returns once the device has
\* finished all the work submitted to the context, and the driver answers
\* every map request that is waiting, whoever made it
PairPoll(h, outcomes) ==
    /\ pair.runs[h].pc = "poll"
    /\ pair.queue = << >>
    /\ \A g \in Handles :
          /\ pair.runs[g].request = "rejected" => outcomes[g] = "err"
          /\ pair.runs[g].request = "none" => outcomes[g] = "closed"
    /\ LET answered == { g \in Handles : pair.runs[g].request # "none" }
           granted == { PairStaging(g) : g \in { a \in answered : pair.runs[a].request = "waiting"
                                                                   /\ outcomes[a] = "ok" } }
           refused == { PairStaging(g) : g \in { a \in answered : pair.runs[a].request = "waiting"
                                                                   /\ outcomes[a] # "ok" } }
       IN  pair' = [ pair EXCEPT
                       !.mappings = [ id \in DOMAIN @ |->
                                        IF id \in granted THEN [ @[id] EXCEPT !.state = "mapped" ]
                                        ELSE IF id \in refused THEN [ @[id] EXCEPT !.state = "idle" ]
                                        ELSE @[id] ],
                       !.runs = [ g \in Handles |->
                                    LET r == [ @[g] EXCEPT !.request = "none",
                                                           !.signal = IF g \in answered
                                                                      THEN outcomes[g] ELSE @ ]
                                    IN  IF g = h THEN [ r EXCEPT !.pc = RunOrder("poll") ] ELSE r ] ]
    /\ UNCHANGED << mainVars, sums >>

PairReceive(h) ==
    /\ pair.runs[h].pc = "receive"
    /\ pair.runs[h].signal # "empty"
    /\ IF MappingSucceeded(pair.runs[h].signal)
       THEN pair' = [ pair EXCEPT !.runs[h].pc = RunOrder("receive") ]
       ELSE PairPanicsWith(h, "failed to run compute on gpu!")
    /\ UNCHANGED << mainVars, sums >>

PairGetMappedRange(h) ==
    /\ pair.runs[h].pc = "get_mapped_range"
    /\ IF pair.mappings[PairStaging(h)].state = "mapped"
       THEN pair' = [ pair EXCEPT
                        !.runs[h].pc = RunOrder("get_mapped_range"),
                        !.runs[h].data = Some(pair.buffers[PairStaging(h)].contents),
                        !.mappings[PairStaging(h)].views = @ + 1 ]
       ELSE PairPanicsWith(h, "buffer is not mapped")
    /\ UNCHANGED << mainVars, sums >>

PairToVec(h) ==
    /\ pair.runs[h].pc = "to_vec"
    /\ pair' = [ pair EXCEPT !.runs[h].pc = RunOrder("to_vec"),
                             !.runs[h].result = Some(cast_slice_to_words(pair.runs[h].data[1])) ]
    /\ UNCHANGED << mainVars, sums >>

PairDropData(h) ==
    /\ pair.runs[h].pc = "drop"
    /\ pair' = [ pair EXCEPT
                   !.runs[h].pc = RunOrder("drop"),
                   !.runs[h].data = None,
                   !.mappings[PairStaging(h)].views = IF pair.runs[h].data = None THEN @ ELSE @ - 1 ]
    /\ UNCHANGED << mainVars, sums >>

PairUnmap(h) ==
    /\ pair.runs[h].pc = "unmap"
    /\ IF pair.mappings[PairStaging(h)].views = 0
       THEN pair' = [ pair EXCEPT !.runs[h].pc = RunOrder("unmap"),
                                  !.mappings[PairStaging(h)].state = "idle" ]
       ELSE PairPanicsWith(h, "cannot unmap a buffer that still has mapped views")
    /\ UNCHANGED << mainVars, sums >>

PairReturnResult(h) ==
    /\ pair.runs[h].pc = "return"
    /\ pair' = [ pair EXCEPT
                   !.runs[h].pc = "idle",
                   !.results[h] = Append(@, [ kind |-> "Some", msg |-> "",
                                              val |-> pair.runs[h].result[1] ]) ]
    /\ UNCHANGED << mainVars, sums >>

\* ----------------------------------------------------------- specification

Init ==
    /\ boot = BootIdle
    /\ ilog = << >>
    /\ call = None
    /\ buffers = << >>
    /\ bind_groups = << >>
    /\ queue = << >>
    /\ bufcoder = None
    /\ mapping = MapIdle
    /\ run = RunIdle
    /\ rlog = << >>
    /\ results = << >>
    /\ host = HostIdle
    /\ sums = SumIdle
    /\ pair = PairIdle

Next ==
    \/ \E filename \in Filenames : Initialaze(filename)
    \/ \E adapter \in { None } \cup { Some([ vendor |-> v ]) : v \in Vendors } :
            RequestAdapter(adapter)
    \/ \E granted \in BOOLEAN : RequestDevice(granted)
    \/ GetInfo
    \/ ReadShader
    \/ CreateShaderModule
    \/ ReturnGpuConsts
    \/ \E numbers \in BindingsInputs, func_name \in Funcs, binding_number \in BindingNumbers :
            Initialize(numbers, func_name, binding_number)
    \/ \E numbers \in ReplacementBindings : ReplaceBindings(numbers)
    \/ ExecuteComputePass
    \/ ExecuteCopy
    \/ Run
    \/ MapAsync
    \/ \E outcome \in MapOutcomes : Poll(outcome)
    \/ Receive
    \/ GetMappedRange
    \/ ToVec
    \/ DropData
    \/ Unmap
    \/ ReturnResult

Spec == Init /\ [][Next]_vars

\* The host thread keeps running the call it is in, and the device keeps
\* executing what was submitted to it.
RunSteps ==
    \/ MapAsync
    \/ \E outcome \in MapOutcomes : Poll(outcome)
    \/ Receive
    \/ GetMappedRange
    \/ ToVec
    \/ DropData
    \/ Unmap
    \/ ReturnResult

\* two callers of one GpuConsts, their steps interleaved in every way
PairNext ==
    \/ \E filename \in Filenames : Initialaze(filename)
    \/ \E adapter \in { None } \cup { Some([ vendor |-> v ]) : v \in Vendors } :
            RequestAdapter(adapter)
    \/ \E granted \in BOOLEAN : RequestDevice(granted)
    \/ GetInfo
    \/ ReadShader
    \/ CreateShaderModule
    \/ ReturnGpuConsts
    \/ \E h \in Handles, input_output \in PairPrimaries, func_name \in Funcs :
            PairInitialize(h, initialize_one(input_output), func_name, 1)
    \/ PairExecuteComputePass
    \/ PairExecuteCopy
    \/ \E h \in Handles : PairRun(h)
    \/ \E h \in Handles : PairMapAsync(h)
    \/ \E h \in Handles, outcomes \in [ Handles -> MapOutcomes ] : PairPoll(h, outcomes)
    \/ \E h \in Handles : PairReceive(h)
    \/ \E h \in Handles : PairGetMappedRange(h)
    \/ \E h \in Handles : PairToVec(h)
    \/ \E h \in Handles : PairDropData(h)
    \/ \E h \in Handles : PairUnmap(h)
    \/ \E h \in Handles : PairReturnResult(h)

PairSpec == Init /\ [][PairNext]_vars

\* the CPU-side sums on their own
SumNext ==
    \/ \E arr \in SumArrays : \E start \in 0..(Len(arr) - 1) : \E end \in start..(Len(arr) - 1) :
            OptimizedSumVec(arr, start, end)
    \/ EnterCall
    \/ ReturnSum

SumSpec == Init /\ [][SumNext]_vars

\* a call that was made keeps running until it returns
SumFairSpec == SumSpec /\ WF_vars(EnterCall) /\ WF_vars(ReturnSum)

FairSpec ==
    /\ Spec
    /\ WF_vars(ExecuteComputePass)
    /\ WF_vars(ExecuteCopy)
    /\ WF_vars(RunSteps)

\* ------------------------------------------------------------------ claims

Range(s) == { s[i] : i \in 1..Len(s) }

\* the calls of run that returned a result sequence
Returned == { i \in 1..Len(results) : results[i].kind = "Some" }

\* C1: once a call of run on the BufCoder has returned a result, every later
\* call of run on the same BufCoder ends in an error and returns no result
\* sequence.
C1_SecondResolveFails ==
    \A i \in Returned : \A j \in (i + 1)..Len(results) : results[j].kind # "Some"

\* C2: with binding_number in 1..4 and an entry point that leaves the primary
\* buffer as it is, every result run returns is the input_output sequence
\* given to initialize: same length, same elements, same order.
C2_IdentityRoundTrip ==
    \A i \in Returned :
        (call[1].func_name = "identity" /\ call[1].binding_number \in 1..4)
            => results[i].val = call[1].numbers.input_output

C2_Witness ==
    /\ Returned # { }
    /\ call[1].func_name = "identity"
    /\ call[1].binding_number = 4
    /\ call[1].numbers.input_output = << U32(0, 258), U32(32771, 4) >>
    /\ results[1].val = << U32(0, 258), U32(32771, 4) >>

\* the buffer each role is uploaded to and the host sequence it comes from
RoleBuffer == << "storage_buffer", "storage_buffer2", "storage_buffer3", "storage_buffer4" >>
RoleSequence(numbers) ==
    << numbers.input_output, numbers.shared_memory, numbers.global_memory, numbers.output_vec >>

\* C3: with binding_number in 1..4, initialize creates exactly one bind group,
\* its entries are the bindings 0 .. binding_number - 1 in this order, and
\* entry k is the buffer of role k (primary, shared, global, output): the
\* buffer created from that role's sequence. The compute pass is recorded
\* with that bind group.
C3_BindGroupEntries ==
    (call # None /\ call[1].binding_number \in 1..4) =>
        /\ Len(bind_groups) = 1
        /\ Len(bind_groups[1]) = call[1].binding_number
        /\ \A k \in 1..Len(bind_groups[1]) :
              /\ bind_groups[1][k].binding = k - 1
              /\ bind_groups[1][k].resource = RoleBuffer[k]
              /\ buffers[RoleBuffer[k]].size = SizeOfU32 * Len(RoleSequence(call[1].numbers)[k])
              /\ k > 1 => buffers[RoleBuffer[k]].contents =
                             cast_slice_to_bytes(RoleSequence(call[1].numbers)[k])
        /\ \A c \in Range(queue) : c.type = "compute_pass" => c.bind_group = bind_groups[1]

C3_Witness ==
    /\ call # None
    /\ call[1].binding_number = 3
    /\ call[1].numbers.global_memory = GlobalSample
    /\ Len(bind_groups) = 1
    /\ bind_groups[1] = << Entry(0, "storage_buffer"), Entry(1, "storage_buffer2"),
                           Entry(2, "storage_buffer3") >>

\* C4: a role whose slot is inactive (its number is above binding_number)
\* gets no GPU buffer and no binding; with binding_number = 1 this is every
\* role but the primary.
C4_InactiveRoleAllocatesNothing ==
    call # None =>
        \A k \in 2..4 :
            k > call[1].binding_number =>
                /\ RoleBuffer[k] \notin DOMAIN buffers
                /\ \A g \in Range(bind_groups) : \A e \in Range(g) : e.resource # RoleBuffer[k]

\* C5: when the shader path cannot be read, initialaze returns an error
\* value, and no logical device, queue or shader module has been allocated.
C5_ShaderLoadErrorNoResources ==
    (boot.pc = "done" /\ "read_to_string" \in Range(ilog) /\ boot.filename \notin Readable) =>
        /\ boot.ret[1].kind = "Err"
        /\ ~boot.device
        /\ ~boot.queue
        /\ boot.cs_module = None

\* C6: against an adapter whose vendor id is 0x10005, initialaze never reads
\* the shader file and never creates the shader module, and what it returns
\* is the error "info error". (A refused device request aborts before the
\* adapter info is looked at: nothing is returned then.)
C6_BlacklistedBeforeShader ==
    (boot.adapter # None /\ boot.adapter[1].vendor = BlacklistedVendor) =>
        /\ "read_to_string" \notin Range(ilog)
        /\ "create_shader_module" \notin Range(ilog)
        /\ boot.cs_module = None
        /\ (boot.pc = "done" /\ boot.ret[1].kind # "Panic") => boot.ret = Some(Err("info error"))
        /\ "get_info" \in Range(ilog) => (boot.pc = "done" /\ boot.ret = Some(Err("info error")))

C6_Witness ==
    /\ boot.pc = "done"
    /\ boot.adapter # None
    /\ boot.adapter[1].vendor = BlacklistedVendor
    /\ boot.filename = "shader.wgsl"
    /\ boot.ret = Some(Err("info error"))

\* C7: when request_adapter yields no adapter, initialaze returns the error
\* "adapter error" (it does not abort), and request_adapter is the last call
\* it made: no device request, no adapter info, no shader read, no shader
\* module.
C7_AdapterUnavailable ==
    ("request_adapter" \in Range(ilog) /\ boot.adapter = None) =>
        /\ boot.pc = "done"
        /\ boot.ret = Some(Err("adapter error"))
        /\ ilog = << "instance", "request_adapter" >>
        /\ ~boot.device
        /\ ~boot.queue
        /\ boot.info = None
        /\ boot.cs_module = None

C7_Witness ==
    /\ boot.pc = "done"
    /\ boot.adapter = None
    /\ boot.ret = Some(Err("adapter error"))

\* C8: whenever run is about to unmap the staging buffer, and ever after in
\* that call, no mapped view of it is alive; a call that ends in a panic has
\* neither a live view nor an unmap behind it.
C8_ViewReleasedBeforeUnmap ==
    /\ (run.pc = "unmap" \/ "unmap" \in Range(rlog)) =>
            (mapping.views = 0 /\ run.data = None /\ "drop" \in Range(rlog))
    /\ run.pc = "panicked" => (mapping.views = 0 /\ "unmap" \notin Range(rlog))

C8_Witness ==
    /\ run.pc = "return"
    /\ "get_mapped_range" \in Range(rlog)
    /\ "unmap" \in Range(rlog)
    /\ mapping.state = "idle"

\* the call of run in progress has issued the map request, then polled
PolledAfterMapRequest ==
    \E i \in 1..Len(rlog) : \E j \in 1..Len(rlog) :
        i < j /\ rlog[i] = "map_async" /\ rlog[j] = "poll"

\* C9: in every call of run the device poll comes after the map request and
\* before the wait on the completion signal, and every call of run that has
\* started comes to an end (it returns, or fails fatally): it never waits
\* forever.
C9_PollInsideRun ==
    /\ []((run.pc = "receive" \/ "receive" \in Range(rlog)) => PolledAfterMapRequest)
    /\ (run.pc = "map_async") ~> (run.pc \in { "idle", "panicked" })

C9_Witness ==
    /\ run.pc = "idle"
    /\ Returned # { }
    /\ PolledAfterMapRequest
    /\ rlog[Len(rlog)] = "unmap"

\* C10: when the completion signal reports a failure (the mapping rejected,
\* or the channel closed), run panics with "failed to run compute on gpu!":
\* it has no result, it never reads the mapped range, it asks for the mapping
\* once only, and no call of run follows.
C10_MappingFailedIsFatal ==
    run.signal \in { "err", "closed" } =>
        /\ run.pc \in { "receive", "panicked" }
        /\ run.result = None
        /\ run.data = None
        /\ "get_mapped_range" \notin Range(rlog)
        /\ Cardinality({ i \in 1..Len(rlog) : rlog[i] = "map_async" }) = 1
        /\ run.pc = "panicked" =>
              /\ results[Len(results)] = Panic("failed to run compute on gpu!")
              /\ ~ENABLED Run

C10_Witness ==
    /\ run.pc = "panicked"
    /\ run.signal = "closed"
    /\ results[Len(results)] = Panic("failed to run compute on gpu!")

\* what the result of a dispatch has to be: the kernel applied to the
\* primary sequence as it was handed to initialize
Expected == Kernel(call[1].func_name, call[1].numbers.input_output)

\* C11: within one dispatch the upload comes first, the compute pass second,
\* the copy to the staging buffer third, and run reads the staging buffer
\* only when the copy has been executed: while the compute pass is pending
\* the storage buffer holds the host data and the staging buffer is untouched,
\* while only the copy is pending the storage buffer holds the kernel's output,
\* and every result run returns is that output.
C11_UploadKernelCopyOrder ==
    call # None =>
        LET primary == call[1].numbers.input_output
            types == [ i \in 1..Len(queue) |-> queue[i].type ]
        IN  /\ types \in { << "compute_pass", "copy_buffer_to_buffer" >>,
                           << "copy_buffer_to_buffer" >>, << >> }
            /\ Len(queue) = 2 =>
                  /\ buffers["storage_buffer"].contents = cast_slice_to_bytes(primary)
                  /\ buffers["staging_buffer"].contents = Zeros(SizeOfU32 * Len(primary))
            /\ Len(queue) = 1 =>
                  /\ buffers["storage_buffer"].contents = cast_slice_to_bytes(Expected)
                  /\ buffers["staging_buffer"].contents = Zeros(SizeOfU32 * Len(primary))
            /\ Len(queue) = 0 =>
                  buffers["staging_buffer"].contents = cast_slice_to_bytes(Expected)
            /\ "get_mapped_range" \in Range(rlog) => queue = << >>
            /\ run.data # None => run.data[1] = cast_slice_to_bytes(Expected)
            /\ \A i \in Returned : results[i].val = Expected

C11_Witness ==
    /\ Returned # { }
    /\ call[1].func_name = "double"
    /\ call[1].numbers.input_output = << U32(32771, 4), U32(0, 258) >>
    /\ results[1].val = << U32(6, 8), U32(0, 516) >>

\* C15: the staging buffer is as large as the primary sequence in bytes and
\* may be read-mapped and copied into, nothing else; the primary storage
\* buffer is shader storage, copy source and copy destination; every
\* auxiliary buffer is shader storage only; and the copy moves that many bytes
\* from the primary storage buffer into the staging buffer.
C15_BufferUsage ==
    call # None =>
        LET bytes == SizeOfU32 * Len(call[1].numbers.input_output)
        IN  /\ buffers["staging_buffer"].size = bytes
            /\ Len(buffers["staging_buffer"].contents) = bytes
            /\ buffers["staging_buffer"].usage = { "MAP_READ", "COPY_DST" }
            /\ buffers["storage_buffer"].usage = { "STORAGE", "COPY_SRC", "COPY_DST" }
            /\ \A k \in 2..4 : buffers[RoleBuffer[k]].usage = { "STORAGE" }
            /\ \A c \in Range(queue) :
                  c.type = "copy_buffer_to_buffer" =>
                      /\ c.size = bytes
                      /\ c.src = "storage_buffer"
                      /\ c.dst = "staging_buffer"
                      /\ "COPY_SRC" \in buffers[c.src].usage
                      /\ "COPY_DST" \in buffers[c.dst].usage
            /\ \A g \in Range(bind_groups) : \A e \in Range(g) :
                  "STORAGE" \in buffers[e.resource].usage

C15_Witness ==
    /\ call # None
    /\ Len(call[1].numbers.input_output) = 2
    /\ call[1].numbers.output_vec = OutputSample
    /\ call[1].binding_number = 4
    /\ buffers["staging_buffer"].size = 8
    /\ Len(queue) = 1
    /\ queue[1].size = 8

\* C17: whatever binding_number is, 0 and values above 4 included, the bind
\* group holds exactly min(max(binding_number, 1), 4) entries, they are the
\* bindings 0, 1, .. in this order, and binding 0 is among them.
C17_ContiguousPrefix ==
    call # None =>
        LET n == call[1].binding_number
            k == IF n < 1 THEN 1 ELSE IF n > 4 THEN 4 ELSE n
        IN  \A g \in Range(bind_groups) :
                /\ Len(g) = k
                /\ g[1].binding = 0
                /\ \A i \in 1..Len(g) : g[i].binding = i - 1

C17_Witness ==
    /\ call # None
    /\ call[1].binding_number = 0
    /\ Len(bind_groups) = 1
    /\ bind_groups[1] = << Entry(0, "storage_buffer") >>

\* C18: run reads the mapped range only after the completion signal said the
\* mapping succeeded, with the staging buffer mapped; when run returns, the
\* staging buffer is unmapped and no mapped view is left; and what run returns
\* is always a result sequence, never the absent value.
C18_MapLifecycle ==
    /\ "get_mapped_range" \in Range(rlog) =>
            (run.signal = "ok" /\ "receive" \in Range(rlog))
    /\ run.data # None => (mapping.state = "mapped" /\ mapping.views = 1)
    /\ run.pc \in { "to_vec", "drop" } => mapping.state = "mapped"
    /\ (run.pc = "return" \/ (run.pc = "idle" /\ results # << >>)) =>
            (mapping.state = "idle" /\ mapping.views = 0 /\ mapping.request = "none")
    /\ run.pc = "return" => run.result # None
    /\ \A i \in 1..Len(results) : results[i].kind \in { "Some", "Panic" }

C18_Witness ==
    /\ run.pc = "idle"
    /\ Len(results) = 1
    /\ results[1].kind = "Some"
    /\ mapping.state = "idle"
    /\ mapping.views = 0

\* C14: initialize leaves the four sequences of the caller's Bindings as they
\* were, and a Bindings the caller puts in its place afterwards changes
\* neither the GPU buffers of the dispatch already issued nor what run
\* returns for it.
C14_BindingsNotRetained ==
    call # None =>
        /\ ~host.replaced => host.numbers = Some(call[1].numbers)
        /\ \A k \in 2..4 : buffers[RoleBuffer[k]].contents =
                               cast_slice_to_bytes(RoleSequence(call[1].numbers)[k])
        /\ Len(queue) = 2 => buffers["storage_buffer"].contents =
                                 cast_slice_to_bytes(call[1].numbers.input_output)
        /\ \A i \in Returned : results[i].val = Kernel(call[1].func_name, call[1].numbers.input_output)

C14_Witness ==
    /\ host.replaced
    /\ host.numbers[1].input_output = << U32(65535, 65535) >>
    /\ call[1].numbers.input_output = << U32(0, 258), U32(32771, 4) >>
    /\ call[1].func_name = "double"
    /\ Len(results) = 1
    /\ results[1].val = << U32(0, 516), U32(6, 8) >>

\* the sum of arr[start..=end] as a number, in 16-bit halves, and whether it
\* fits in 32 bits
RECURSIVE HalfSum(_, _, _, _)
HalfSum(arr, start, end, h) ==
    IF start > end THEN 0 ELSE At(arr, start)[h] + HalfSum(arr, start + 1, end, h)

Exact(arr, start, end) ==
    LET lo == HalfSum(arr, start, end, 2)
        hi == HalfSum(arr, start, end, 1) + lo \div Half
    IN  [ overflows |-> hi >= Half, val |-> U32(hi % Half, lo % Half) ]

FrameSize(frame) == frame[2] - frame[1] + 1

\* C13: for a slice whose total fits in a u32 and 0 <= start <= end < len,
\* optimized_sum_vec(arr, start, end) is the sum of arr[start..=end], at the
\* outermost call and at every recursive call it makes; with start = 0 it is
\* what sum_vec(arr, end + 1) returns.
C13_RecursiveSumAgrees ==
    (sums.pc # "idle" /\ ~Exact(sums.arr, 0, Len(sums.arr) - 1).overflows) =>
        /\ sums.entered # None =>
              optimized_sum_vec(sums.arr, sums.entered[1][1], sums.entered[1][2])
                  = Exact(sums.arr, sums.entered[1][1], sums.entered[1][2]).val
        /\ sums.pc = "done" =>
              /\ sums.ret = Some(Exact(sums.arr, sums.start, sums.end).val)
              /\ sums.total = Some(Exact(sums.arr, 0, sums.end).val)
              /\ sums.start = 0 => sums.ret = sums.total

C13_Witness ==
    /\ sums.pc = "done"
    /\ sums.arr = << U32(0, 5), U32(1, 65535), U32(0, 5), U32(1, 65535) >>
    /\ sums.start = 0
    /\ sums.end = 3
    /\ sums.ret = Some(U32(4, 8))
    /\ sums.total = Some(U32(4, 8))

\* the two recursive calls of a call that is no base case split its range in
\* two non-empty, adjoining halves that are smaller than it
SplitsInHalves ==
    /\ \A i \in 1..Len(sums.pending) : sums.pending[i][1] <= sums.pending[i][2]
    /\ (sums.entered # None /\ sums.made # << >>) =>
          LET frame == sums.entered[1]
              left == sums.made[1]
              right == sums.made[2]
          IN  /\ Len(sums.made) = 2
              /\ left[1] = frame[1]
              /\ right[2] = frame[2]
              /\ right[1] = left[2] + 1
              /\ left[1] <= left[2]
              /\ right[1] <= right[2]
              /\ FrameSize(left) < FrameSize(frame)
              /\ FrameSize(right) < FrameSize(frame)
              /\ FrameSize(left) - FrameSize(right) \in { 0, 1 }

\* the call just entered returned without a recursive call
EnteredBaseCase == sums.entered # None /\ sums.made = << >>

\* C16 as stated: the recursive calls halve the range, and a base case is
\* reached only with 0 or 1 elements left in the range.
C16_BaseCaseAtMostOneElement ==
    /\ SplitsInHalves
    /\ EnteredBaseCase => FrameSize(sums.entered[1]) \in { 0, 1 }

\* C16, amended: the recursive calls of a call that is no base case take two
\* non-empty, disjoint, adjoining ranges whose union is [start, end], each
\* smaller than it; a base case is reached with 1 or 2 elements left in the
\* range (end - start is 0 or 1), never with none; and every call returns.
C16_HalvesAndTerminates ==
    /\ [](SplitsInHalves /\ (EnteredBaseCase => FrameSize(sums.entered[1]) \in { 1, 2 }))
    /\ (sums.pc = "running") ~> (sums.pc = "done")

C16_Witness ==
    /\ sums.pc = "running"
    /\ sums.start = 0
    /\ sums.end = 3
    /\ sums.entered = Some(<< 2, 3 >>)
    /\ sums.made = << >>
    /\ sums.pending = << >>

\* what caller h has to get back: the kernel it named, applied to the
\* sequence it passed
PairExpected(h) ==
    Kernel(pair.calls[h][1].func_name, pair.calls[h][1].numbers.input_output)

\* C12: two dispatches issued against one GpuConsts share no buffer, and
\* however their initialize and run steps and the device's steps interleave,
\* every value a run returns is the result of its own dispatch, and a run
\* fails only because its own mapping was refused.
C12_DispatchesShareNoBuffers ==
    /\ (pair.bufcoders[1] # None /\ pair.bufcoders[2] # None) =>
          /\ PairStaging(1) # PairStaging(2)
          /\ Cardinality(DOMAIN pair.buffers) = 2 * Cardinality(DOMAIN CreatedBuffers(initialize_one(<< >>)))
          /\ \A i \in 1..Len(pair.queue) :
                LET cmd == pair.queue[i]
                    used == { cmd.bind_group[k].resource[1] : k \in 1..Len(cmd.bind_group) }
                            \cup (IF cmd.type = "copy_buffer_to_buffer"
                                  THEN { cmd.src[1], cmd.dst[1] } ELSE { })
                IN  Cardinality(used) = 1
    /\ \A h \in Handles : \A i \in 1..Len(pair.results[h]) :
          LET r == pair.results[h][i]
          IN  /\ r.kind = "Some" => r.val = PairExpected(h)
              /\ r.kind = "Panic" => /\ r.msg = "failed to run compute on gpu!"
                                     /\ pair.runs[h].signal \in { "err", "closed" }
    /\ \A h \in Handles :
          pair.runs[h].result # None => pair.runs[h].result = Some(PairExpected(h))

\* both callers got their own result back, the second while the first was
\* still holding its mapped view
C12_Witness ==
    /\ pair.calls[1] # None
    /\ pair.calls[2] # None
    /\ pair.calls[1][1].func_name = "double"
    /\ pair.calls[2][1].func_name = "identity"
    /\ pair.calls[1][1].numbers.input_output = << U32(65535, 65535), U32(0, 7) >>
    /\ pair.calls[2][1].numbers.input_output = << U32(1, 2) >>
    /\ pair.runs[1].pc = "drop"
    /\ pair.runs[1].result = Some(<< U32(65535, 65534), U32(0, 14) >>)
    /\ pair.results[2] = << [ kind |-> "Some", msg |-> "", val |-> << U32(1, 2) >> ] >>

====
